---------------------------- MODULE Spec2Model ----------------------------
(***************************************************************************)
(* A model of the DivertSocket element (etc/ron/divertsocket.cc): the      *)
(* configuration parser, the firewall/socket set-up of initialize, the     *)
(* tear-down of uninitialize and the receive callback selected, together   *)
(* with the part of the host the element acts on: the process's descriptor *)
(* table, the kernel's firewall table and the readiness registrar.         *)
(*                                                                         *)
(* Strings are sequences of one-character strings, so that find_left,      *)
(* substring and the integer parser work on them as the code does.         *)
(***************************************************************************)
EXTENDS Integers, Sequences, FiniteSets, TLC

(***************************************************************************)
(* Bounds of the model.                                                    *)
(***************************************************************************)
\* Longest configuration vector tried (the parser accepts 6 to 9 tokens).
MaxTokens == 10
\* Size of the process's descriptor table above stdin, stdout and stderr:
\* socket() hands out 3 .. MaxFds + 2 and fails (EMFILE) once all are open.
MaxFds == 3

(***************************************************************************)
(* Program constants.                                                      *)
(***************************************************************************)
IP_PROTO_TCP == 6
IP_PROTO_UDP == 17
\* the largest port number, 0xFFFF
PORT_MAX == 65535
\* the headroom and the buffer size selected() asks Packet::make for
HEADROOM == 2
BUFSIZE == 2046

(***************************************************************************)
(* Strings.                                                                *)
(***************************************************************************)
Digits == <<"0", "1", "2", "3", "4", "5", "6", "7", "8", "9">>

IsDigit(c) == \E i \in 1..10 : Digits[i] = c

DigitVal(c) == (CHOOSE i \in 1..10 : Digits[i] = c) - 1

\* String::find_left(c): the 0-based index of the first c, or -1
find_left(s, c) ==
  IF \E i \in 1..Len(s) : s[i] = c
  THEN (CHOOSE i \in 1..Len(s) : s[i] = c /\ \A j \in 1..(i - 1) : s[j] # c) - 1
  ELSE -1

\* String::substring(pos, len), 0-based, clipped to the string
substring(s, pos, len) ==
  IF pos >= Len(s) \/ len <= 0 THEN <<>>
  ELSE SubSeq(s, pos + 1, IF pos + len > Len(s) THEN Len(s) ELSE pos + len)

\* String::substring(pos): from pos to the end
substring_from(s, pos) == substring(s, pos, Len(s) - pos)

RECURSIVE DecimalValue(_)
DecimalValue(s) ==
  IF s = <<>> THEN 0
  ELSE 10 * DecimalValue(SubSeq(s, 1, Len(s) - 1)) + DigitVal(s[Len(s)])

AllDigits(s) == Len(s) > 0 /\ \A i \in 1..Len(s) : IsDigit(s[i])

\* cp_integer(str, &result): an optional sign and decimal digits; the result
\* is stored only when the whole string parses
cp_integer(s) ==
  IF AllDigits(s) THEN [ok |-> TRUE, val |-> DecimalValue(s)]
  ELSE IF Len(s) > 1 /\ s[1] = "-" /\ AllDigits(Tail(s))
       THEN [ok |-> TRUE, val |-> 0 - DecimalValue(Tail(s))]
       ELSE [ok |-> FALSE, val |-> 0]

\* cp_va_parse(str, ..., cpUnsigned, ...)
cp_unsigned(s) ==
  IF AllDigits(s) THEN [ok |-> TRUE, val |-> DecimalValue(s)]
  ELSE [ok |-> FALSE, val |-> 0]

\* cp_va_parse(str, ..., cpByte, ...): an unsigned integer below 256
cp_byte(s) ==
  IF AllDigits(s) /\ Len(s) <= 3 /\ DecimalValue(s) <= 255
  THEN [ok |-> TRUE, val |-> DecimalValue(s)]
  ELSE [ok |-> FALSE, val |-> 0]

\* the dot-separated fields of a string
RECURSIVE SplitDots(_)
SplitDots(s) ==
  LET dot == find_left(s, ".") IN
  IF dot < 0 THEN <<s>>
  ELSE <<substring(s, 0, dot)>> \o SplitDots(substring_from(s, dot + 1))

\* cp_ip_address: four dot-separated bytes
cp_ip_address(s) ==
  LET parts == SplitDots(s) IN
  IF Len(parts) = 4 /\ \A i \in 1..4 : cp_byte(parts[i]).ok
  THEN [ok |-> TRUE, addr |-> [i \in 1..4 |-> cp_byte(parts[i]).val]]
  ELSE [ok |-> FALSE, addr |-> <<0, 0, 0, 0>>]

\* cp_ip_prefix(str, &addr, &mask, allow_bare_address = true): ADDR/LEN, or a
\* bare address, which stands for ADDR/32.  The mask is kept as its length.
cp_ip_prefix(s) ==
  LET slash == find_left(s, "/")
      a == cp_ip_address(IF slash < 0 THEN s ELSE substring(s, 0, slash))
      l == IF slash < 0 THEN [ok |-> TRUE, val |-> 32]
           ELSE cp_unsigned(substring_from(s, slash + 1))
  IN IF a.ok /\ l.ok /\ l.val <= 32
     THEN [ok |-> TRUE, addr |-> a.addr, mask |-> l.val]
     ELSE [ok |-> FALSE, addr |-> <<0, 0, 0, 0>>, mask |-> 0]

\* the zero-address test, never finding a zero address
AddrNeverZero(a) == FALSE

\* IPAddress::addr() == 0
AddrIsZero(a) == \A i \in 1..4 : a[i] = 0

(***************************************************************************)
(* Configuration tokens.                                                   *)
(***************************************************************************)
TokDevice == <<"e", "t", "h", "0">>
TokDivertPort == <<"9", "9", "9", "9">>
TokRuleNum == <<"1">>
TokTcp == <<"6">>
TokUdp == <<"1", "7">>
TokIcmp == <<"1">>
\* 10.0.0.0/8, a prefix with a non-zero address
TokPrefix == <<"1", "0", ".", "0", ".", "0", ".", "0", "/", "8">>
\* 0.0.0.0/0, a prefix whose address is zero
TokZeroPrefix == <<"0", ".", "0", ".", "0", ".", "0", "/", "0">>
\* 80, a single port
TokPort == <<"8", "0">>
\* 80-80, a port range
TokRange == <<"8", "0", "-", "8", "0">>
\* 100-50, a reversed port range
TokReversed == <<"1", "0", "0", "-", "5", "0">>
\* 70000, a port above 0xFFFF
TokBigPort == <<"7", "0", "0", "0", "0">>
TokIn == <<"i", "n">>
TokOut == <<"o", "u", "t">>
TokEmpty == <<>>
TokSideways == <<"u", "p">>

\* conf[i], 0-based as in the code.  Vector::operator[] does not check its
\* index: a read at or past conf.size() yields an indeterminate String, junk.
At(conf, i, junk) == IF i < Len(conf) THEN conf[i + 1] ELSE junk

(***************************************************************************)
(* DivertSocket::parse_ports.  The out-parameters are written as the code  *)
(* writes them, on failure too.                                            *)
(***************************************************************************)
\* the range test of parse_ports
PortsOutOfRange(portl, porth) == portl > porth \/ portl < 0 \/ porth > PORT_MAX

parse_ports(param) ==
  LET d0 == find_left(param, "-")
      dash == IF d0 < 0 THEN Len(param) ELSE d0
      lo == cp_integer(substring(param, 0, dash))
      hi == cp_integer(substring_from(param, dash + 1))
  IN IF ~lo.ok THEN [ret |-> -1, portl |-> 0, porth |-> 0]
     ELSE IF dash < Len(param) /\ ~hi.ok
          THEN [ret |-> -1, portl |-> lo.val, porth |-> 0]
          ELSE LET h == IF dash < Len(param) THEN hi.val ELSE lo.val IN
               [ret |-> IF PortsOutOfRange(lo.val, h) THEN -1 ELSE 0,
                portl |-> lo.val, porth |-> h]

(***************************************************************************)
(* The element.  A freshly constructed DivertSocket has _fd = -1 and       *)
(* default-constructed Strings and addresses; its other members are not    *)
(* initialized by the constructor, so they hold whatever the allocator     *)
(* left there: all zero bytes, or junk.                                    *)
(***************************************************************************)
VARIABLES
  backend,      \* the firewall backend compiled in: "FreeBSD" or "linux"
  byteorder,    \* the byte order of the host: "little" or "big"
  elem,         \* the members of the DivertSocket object
  phase,        \* where the host has brought the element: "Unconfigured",
                \* "Configured", "Live", "Failed" (configure or initialize
                \* returned an error: the host starts nothing more, it only
                \* tears down), "Down" (uninitialized) or "Destroyed"
  openFds,      \* the descriptors open in the process, 0 to 2 included
  nonblocking,  \* the open descriptors in O_NONBLOCK mode
  registered,   \* the descriptors registered for read-readiness
  fwtable,      \* the kernel's firewall table: chain -> sequence of rules
  last,         \* the most recent call on the element, with the state before
  prev          \* the call before that one

vars == <<backend, byteorder, elem, phase, openFds, nonblocking, registered, fwtable, last, prev>>

JunkLabel == <<"?", "?", "?", "?", "?", "?", "?", "?", "?">>

\* DivertSocket::DivertSocket
\* struct ip_fw, the fields the element fills in
ip_fw(proto, redirpt, spts, dpts, src, smsk, dst, dmsk, vianame) ==
  [fw_proto |-> proto, fw_redirpt |-> redirpt, fw_spts |-> spts, fw_dpts |-> dpts,
   fw_src |-> src, fw_smsk |-> smsk, fw_dst |-> dst, fw_dmsk |-> dmsk,
   fw_vianame |-> vianame]

NewElement(junkHeap) ==
  LET int == IF junkHeap THEN 43690 ELSE 0
      label == IF junkHeap THEN JunkLabel ELSE <<>>
      fwnew == [fwn_label |-> label,
                fwn_rule |-> [label |-> label,
                              ipfw |-> ip_fw(int, int, <<int, int>>, <<int, int>>,
                                             <<0, 0, 0, 0>>, 0, <<0, 0, 0, 0>>, 0,
                                             <<>>)],
                fwn_rulenum |-> int]
  IN [_fd |-> -1,
      _have_sport |-> junkHeap, _have_dport |-> junkHeap,
      _device |-> <<>>, _divertport |-> int, _rulenumber |-> int,
      _protocol |-> IF junkHeap THEN 170 ELSE 0,
      _saddr |-> <<0, 0, 0, 0>>, _smask |-> 0,
      _daddr |-> <<0, 0, 0, 0>>, _dmask |-> 0,
      _sportl |-> int, _sporth |-> int, _dportl |-> int, _dporth |-> int,
      _inout |-> <<>>,
      fw_sock |-> int, ipfc |-> fwnew, ipfc2 |-> fwnew]

(***************************************************************************)
(* DivertSocket::configure.  Each operator is a stretch of the function;   *)
(* it ends in a failure or goes on to the next stretch.  The result holds  *)
(* the return value, the members as the call leaves them, and whether the  *)
(* call read conf[] past its end.                                          *)
(***************************************************************************)
Failed(e, oob) == [ret |-> -1, e |-> e, oob |-> oob]

Succeeded(e, oob) == [ret |-> 0, e |-> e, oob |-> oob]

HasPorts(protocol) == protocol = IP_PROTO_UDP \/ protocol = IP_PROTO_TCP

\* "parse in/out"
ConfigureInOut(conf, e, confindex, oob) ==
  IF Len(conf) = confindex + 1
  THEN LET e1 == [e EXCEPT !._inout = conf[confindex + 1]] IN
       IF e1._inout # TokEmpty /\ e1._inout # TokIn /\ e1._inout # TokOut
       THEN Failed(e1, oob)
       ELSE Succeeded(e1, oob)
  ELSE Succeeded(e, oob)

\* "parse dst ports"
ConfigureDstPorts(conf, e, confindex, oob) ==
  IF Len(conf) = confindex + 1
  THEN LET p == parse_ports(conf[confindex + 1])
           e1 == [e EXCEPT !._dportl = p.portl, !._dporth = p.porth]
       IN IF HasPorts(e._protocol)
          THEN IF p.ret < 0
               THEN ConfigureInOut(conf, [e1 EXCEPT !._have_dport = FALSE],
                                   confindex, oob)
               ELSE ConfigureInOut(conf, [e1 EXCEPT !._have_dport = TRUE],
                                   confindex + 1, oob)
          ELSE IF p.ret >= 0
               THEN Failed(e1, oob)
               ELSE ConfigureInOut(conf, e1, confindex, oob)
  ELSE ConfigureInOut(conf, e, confindex, oob)

\* "parse dst addr/mask"
ConfigureDst(conf, e, confindex, junk) ==
  LET oob == confindex >= Len(conf)
      d == cp_ip_prefix(At(conf, confindex, junk))
      e1 == [e EXCEPT !._daddr = d.addr, !._dmask = d.mask]
  IN IF ~d.ok THEN Failed(e, oob)
     ELSE IF AddrIsZero(e1._daddr) THEN Failed(e1, oob)
     ELSE ConfigureDstPorts(conf, e1, confindex + 1, oob)

\* the arity test for a rule that is neither TCP nor UDP, with the bound
\* off by one
TooManyForNonPortsOffByOne(size) == size > 8

TooManyForNonPorts(size) == size > 7

\* "parse src ports"
ConfigureSrcPorts(conf, e, junk) ==
  IF ~HasPorts(e._protocol) /\ TooManyForNonPorts(Len(conf))
  THEN Failed(e, FALSE)
  ELSE LET p == parse_ports(At(conf, 5, junk))
           e1 == [e EXCEPT !._sportl = p.portl, !._sporth = p.porth]
       IN IF HasPorts(e._protocol)
          THEN IF p.ret < 0
               THEN ConfigureDst(conf, [e1 EXCEPT !._have_sport = FALSE], 5, junk)
               ELSE ConfigureDst(conf, [e1 EXCEPT !._have_sport = TRUE], 6, junk)
          ELSE IF p.ret >= 0
               THEN Failed(e1, FALSE)
               ELSE ConfigureDst(conf, e1, 5, junk)

\* "parse devicename" to "invalid src addr"
ConfigureFixed(conf, e, junk) ==
  LET dp == cp_unsigned(At(conf, 1, junk))
      rn == cp_unsigned(At(conf, 2, junk))
      pr == cp_byte(At(conf, 3, junk))
      sp == cp_ip_prefix(At(conf, 4, junk))
      e1 == [e EXCEPT !._device = At(conf, 0, junk)]
      e2 == [e1 EXCEPT !._divertport = dp.val]
      e3 == [e2 EXCEPT !._rulenumber = rn.val]
      e4 == [e3 EXCEPT !._protocol = pr.val]
      e5 == [e4 EXCEPT !._saddr = sp.addr, !._smask = sp.mask]
  IN IF ~dp.ok THEN Failed(e1, FALSE)
     ELSE IF ~rn.ok THEN Failed(e2, FALSE)
     ELSE IF ~pr.ok THEN Failed(e3, FALSE)
     ELSE IF ~sp.ok THEN Failed(e4, FALSE)
     ELSE IF AddrIsZero(e5._saddr) THEN Failed(e5, FALSE)
     ELSE ConfigureSrcPorts(conf, e5, junk)

\* the arity test at the head of configure, accepting one token more
BadArityOffByOne(size) == size < 6 \/ size > 10

BadArity(size) == size < 6 \/ size > 9

configure(conf, e, junk) ==
  LET e0 == [e EXCEPT !._have_sport = FALSE, !._have_dport = FALSE] IN
  IF BadArity(Len(conf)) THEN Failed(e0, FALSE)
  ELSE ConfigureFixed(conf, e0, junk)

(***************************************************************************)
(* The host: descriptors, the firewall table, the readiness registrar.     *)
(* env is the record [openFds, nonblocking, registered, fwtable].          *)
(***************************************************************************)
FdSet == 3..(MaxFds + 2)

\* stdin, stdout and stderr, open when the element is made
StdFds == 0..2

Chains == {"input", "output", "ipfw"}

ChainInput == <<"i", "n", "p", "u", "t">>
ChainOutput == <<"o", "u", "t", "p", "u", "t">>

\* a rule some other party put in a chain before the element started
OtherRule == [owner |-> "other", num |-> 65535, rule |-> <<>>]

\* a rule of the element: its number and what it says
ElementRule(rulenum, rule) == [owner |-> "element", num |-> rulenum, rule |-> rule]

\* htons on a host of the given byte order: the two bytes of a 16-bit value
\* change places on a little-endian host and stay on a big-endian one
htons(x, order) ==
  IF order = "little"
  THEN ((x % 256) * 256 + ((x \div 256) % 256)) % 65536
  ELSE x % 65536

\* What a call does to the world outside the object, in the order it does it.
Op(name, fd, chain, num, ok) ==
  [op |-> name, fd |-> fd, chain |-> chain, num |-> num, ok |-> ok]

\* socket(): the lowest free descriptor, or -1
LowestFree(fds) == CHOOSE f \in FdSet \ fds : \A g \in FdSet \ fds : f <= g

SocketResult(env, kernelOk) ==
  IF kernelOk /\ FdSet \ env.openFds # {} THEN LowestFree(env.openFds) ELSE -1

OpenFd(env, fd) == [env EXCEPT !.openFds = @ \cup {fd}]

\* close(fd): EBADF when fd is not open
CloseFd(env, fd) ==
  [env EXCEPT !.openFds = @ \ {fd}, !.nonblocking = @ \ {fd}]

\* memcpy(label, chain, strlen(chain)): the first strlen(chain) bytes are
\* overwritten, no NUL is written after them.  A label is kept as the bytes
\* before its first NUL.
LabelAfterMemcpy(label, chain) ==
  [i \in 1..(IF Len(label) > Len(chain) THEN Len(label) ELSE Len(chain)) |->
     IF i <= Len(chain) THEN chain[i] ELSE label[i]]

\* the chain of the table a label names, if any
ChainOf(label) ==
  IF label = ChainInput THEN "input"
  ELSE IF label = ChainOutput THEN "output" ELSE "none"

InsertAt(seq, pos, x) ==
  SubSeq(seq, 1, pos - 1) \o <<x>> \o SubSeq(seq, pos, Len(seq))

RemoveAt(seq, pos) == SubSeq(seq, 1, pos - 1) \o SubSeq(seq, pos + 1, Len(seq))

\* setsockopt(IP_FW_INSERT): the rule goes in at position rulenum of the
\* named chain.  It fails for an unknown chain or a position past the end,
\* and whenever the kernel refuses it.
CanInsert(env, fwnew, kernelOk) ==
  /\ kernelOk
  /\ ChainOf(fwnew.fwn_label) # "none"
  /\ fwnew.fwn_rulenum >= 1
  /\ fwnew.fwn_rulenum <= Len(env.fwtable[ChainOf(fwnew.fwn_label)]) + 1

FwInsert(env, fwnew) ==
  [env EXCEPT !.fwtable[ChainOf(fwnew.fwn_label)] =
     InsertAt(@, fwnew.fwn_rulenum, ElementRule(fwnew.fwn_rulenum, fwnew.fwn_rule))]

\* setsockopt(IP_FW_DELETE_NUM): the rule at position rulenum of the named
\* chain goes, whoever put it there
CanDelete(env, label, rulenum) ==
  /\ ChainOf(label) # "none"
  /\ rulenum >= 1
  /\ rulenum <= Len(env.fwtable[ChainOf(label)])

FwDelete(env, label, rulenum) ==
  IF CanDelete(env, label, rulenum)
  THEN [env EXCEPT !.fwtable[ChainOf(label)] = RemoveAt(@, rulenum)]
  ELSE env

\* /sbin/ipfw add N ...: one more rule numbered N
IpfwAdd(env, rulenum, command) ==
  [env EXCEPT !.fwtable["ipfw"] = Append(@, ElementRule(rulenum, command))]

\* /sbin/ipfw delete N: every rule numbered N goes
IpfwHas(env, rulenum) ==
  \E i \in 1..Len(env.fwtable["ipfw"]) : env.fwtable["ipfw"][i].num = rulenum

IpfwDelete(env, rulenum) ==
  [env EXCEPT !.fwtable["ipfw"] = SelectSeq(@, LAMBDA r : r.num # rulenum)]

NoLabel == <<>>

Returned(ret, e, env, ops) == [ret |-> ret, e |-> e, env |-> env, ops |-> ops]

(***************************************************************************)
(* DivertSocket::initialize.  out holds what the host answers to each      *)
(* request the call makes: socket, bind, fcntl, system (the ipfw command), *)
(* fwsock (the control socket), insert2 and insert (the two IP_FW_INSERT   *)
(* requests) and select (add_select).                                      *)
(***************************************************************************)
\* add_select(_fd, SELECT_READ); return 0
InitRegister(e, env, ops, out) ==
  Returned(0, e,
           IF out.select THEN [env EXCEPT !.registered = @ \cup {e._fd}] ELSE env,
           Append(ops, Op("add_select", e._fd, NoLabel, 0, out.select)))

\* the "/sbin/ipfw add" command line, by its arguments; prot 0 is printed
\* "ip", a range of one port as that port, no port as nothing
IpfwCommand(e) ==
  [rulenumber |-> e._rulenumber, divert |-> e._divertport, prot |-> e._protocol,
   src |-> <<e._saddr, e._smask>>,
   sport |-> IF ~e._have_sport THEN <<>>
             ELSE IF e._sportl = e._sporth THEN <<e._sportl>>
             ELSE <<e._sportl, e._sporth>>,
   dst |-> <<e._daddr, e._dmask>>,
   dport |-> IF ~e._have_dport THEN <<>>
             ELSE IF e._dportl = e._dporth THEN <<e._dportl>>
             ELSE <<e._dportl, e._dporth>>,
   inout |-> e._inout, via |-> e._device]

\* "Setup firewall", FreeBSD
InitFreeBSD(e, env, ops, out) ==
  LET add == Op("ipfw add", -1, NoLabel, e._rulenumber, out.system) IN
  IF ~out.system
  THEN Returned(-1, e, CloseFd(env, e._fd),
                ops \o <<add, Op("close", e._fd, NoLabel, 0, e._fd \in env.openFds)>>)
  ELSE InitRegister(e, IpfwAdd(env, e._rulenumber, IpfwCommand(e)), Append(ops, add), out)

\* "write a rule into it", the rule of ipfc
InitLinuxInsert(e, env, ops, out) ==
  LET ok == CanInsert(env, e.ipfc, out.insert)
      ins == Op("IP_FW_INSERT", e.fw_sock, e.ipfc.fwn_label, e.ipfc.fwn_rulenum, ok)
  IN IF ~ok THEN Returned(-1, e, env, Append(ops, ins))
     ELSE InitRegister(e, FwInsert(env, e.ipfc), Append(ops, ins), out)

FwPolicy == <<"D", "I", "V", "E", "R", "T">>

\* fw_redirpt, were it bindPort.sin_port as bind was given it
RedirectPortAsBound(sin_port, order) == sin_port

\* fw.fw_redirpt = htons(bindPort.sin_port)
RedirectPort(sin_port, order) == htons(sin_port, order)

\* "Setup firewall", Linux: fill in the rule, open the control socket, name
\* the chain(s) and, for both directions, insert the output rule
InitLinux(e, env, ops, order, out) ==
  LET fw == ip_fw(e._protocol, RedirectPort(htons(e._divertport, order), order),
                  <<e._sportl, e._sporth>>, <<e._dportl, e._dporth>>,
                  e._saddr, e._smask, e._daddr, e._dmask, e._device)
      \* ipfu is a member like ipfc: before the memcpy its label holds what
      \* the object's memory held
      ipfu == [label |-> LabelAfterMemcpy(e.ipfc.fwn_rule.label, FwPolicy),
               ipfw |-> fw]
      ipfc0 == [e.ipfc EXCEPT !.fwn_rule = ipfu, !.fwn_rulenum = e._rulenumber]
      sock == SocketResult(env, out.fwsock)
      e1 == [e EXCEPT !.ipfc = ipfc0, !.fw_sock = sock]
      ops1 == Append(ops, Op("socket", sock, NoLabel, 0, sock # -1))
      env1 == OpenFd(env, sock)
      ipfc2 == [ipfc0 EXCEPT !.fwn_label = LabelAfterMemcpy(@, ChainOutput)]
      e2 == [e1 EXCEPT !.ipfc.fwn_label = LabelAfterMemcpy(@, ChainInput),
                       !.ipfc2 = ipfc2]
      ok2 == CanInsert(env1, ipfc2, out.insert2)
      ins2 == Op("IP_FW_INSERT", sock, ipfc2.fwn_label, ipfc2.fwn_rulenum, ok2)
  IN IF sock = -1 THEN Returned(-1, e1, env, ops1)
     ELSE IF e._inout = TokIn
     THEN InitLinuxInsert(
            [e1 EXCEPT !.ipfc.fwn_label = LabelAfterMemcpy(@, ChainInput)],
            env1, ops1, out)
     ELSE IF e._inout = TokOut
     THEN InitLinuxInsert(
            [e1 EXCEPT !.ipfc.fwn_label = LabelAfterMemcpy(@, ChainOutput)],
            env1, ops1, out)
     ELSE IF ~ok2 THEN Returned(-1, e2, env1, Append(ops1, ins2))
     ELSE InitLinuxInsert(e2, FwInsert(env1, ipfc2), Append(ops1, ins2), out)

\* "Setup socket", then the firewall of the backend compiled in
initialize(e, env, be, order, out) ==
  LET fd == SocketResult(env, out.socket)
      e1 == [e EXCEPT !._fd = fd]
      ops1 == <<Op("printf", -1, NoLabel, 0, TRUE),
                Op("socket", fd, NoLabel, 0, fd # -1)>>
      env1 == OpenFd(env, fd)
      ops2 == Append(ops1, Op("bind", fd, NoLabel, htons(e._divertport, order), out.bind))
      env2 == IF out.fcntl THEN [env1 EXCEPT !.nonblocking = @ \cup {fd}] ELSE env1
      ops3 == Append(ops2, Op("fcntl", fd, NoLabel, 0, out.fcntl))
  IN IF fd = -1 THEN Returned(-1, e1, env, ops1)
     ELSE IF ~out.bind
     THEN Returned(-1, e1, CloseFd(env1, fd),
                   Append(ops2, Op("close", fd, NoLabel, 0, TRUE)))
     ELSE IF be = "FreeBSD" THEN InitFreeBSD(e1, env2, ops3, out)
     ELSE InitLinux(e1, env2, ops3, order, out)

(***************************************************************************)
(* DivertSocket::uninitialize.                                             *)
(***************************************************************************)
\* the rules uninitialize asks the Linux kernel to delete, in order: ipfc's
\* only, whatever the direction
LinuxDeletesFirstOnly(e) == <<e.ipfc>>

\* the rules uninitialize asks the Linux kernel to delete, in order
LinuxDeletes(e) ==
  IF e._inout = TokEmpty THEN <<e.ipfc, e.ipfc2>> ELSE <<e.ipfc>>

\* _fd as uninitialize leaves it, were the assignment forgotten
FdLeftAsItWas(e) == e._fd

\* _fd = -1
FdAfterUninitialize(e) == -1

RECURSIVE DeleteAll(_, _, _, _)
DeleteAll(env, ops, sock, dels) ==
  IF dels = <<>> THEN [env |-> env, ops |-> ops]
  ELSE LET d == Head(dels) IN
       DeleteAll(FwDelete(env, d.fwn_label, d.fwn_rulenum),
                 Append(ops, Op("IP_FW_DELETE_NUM", sock, d.fwn_label, d.fwn_rulenum,
                                CanDelete(env, d.fwn_label, d.fwn_rulenum))),
                 sock, Tail(dels))

\* the firewall part of uninitialize
UninstallRules(e, env, be) ==
  IF be = "FreeBSD"
  THEN [env |-> IpfwDelete(env, e._rulenumber),
        ops |-> <<Op("ipfw delete", -1, NoLabel, e._rulenumber,
                     IpfwHas(env, e._rulenumber))>>]
  ELSE LET d == DeleteAll(env, <<>>, e.fw_sock, LinuxDeletes(e)) IN
       [env |-> CloseFd(d.env, e.fw_sock),
        ops |-> Append(d.ops, Op("close", e.fw_sock, NoLabel, 0,
                                 e.fw_sock \in d.env.openFds))]

uninitialize(e, env, be) ==
  IF e._fd >= 0
  THEN LET u == UninstallRules(e, env, be)
           env1 == CloseFd(u.env, e._fd)
           env2 == [env1 EXCEPT !.registered = @ \ {e._fd}]
       IN Returned(0, [e EXCEPT !._fd = FdAfterUninitialize(e)], env2,
                   u.ops \o <<Op("close", e._fd, NoLabel, 0, e._fd \in u.env.openFds),
                              Op("remove_select", e._fd, NoLabel, 0,
                                 e._fd \in env1.registered)>>)
  ELSE Returned(0, e, env, <<>>)

(***************************************************************************)
(* DivertSocket::selected.  len is what recvfrom returns, eagain whether   *)
(* errno is EAGAIN when it returns -1.                                     *)
(***************************************************************************)
\* Packet::make(headroom, data, len, tailroom): a packet of len bytes after
\* headroom bytes
Packet_make(headroom, len) == [headroom |-> headroom, length |-> len]

\* WritablePacket::change_headroom_and_length
change_headroom_and_length(p, headroom, length) ==
  [p EXCEPT !.headroom = headroom, !.length = length]

\* the packet pushed, were it pushed as Packet::make returned it
PacketAsMade(p, len) == p

\* p->change_headroom_and_length(2, len)
PacketToPush(p, len) == change_headroom_and_length(p, HEADROOM, len)

\* the test of the descriptor, letting every descriptor through
AnyFd(e, fd) == TRUE

\* fd == _fd
IsOwnFd(e, fd) == fd = e._fd

\* the test of recvfrom's result, taking an empty read for a packet
GotPacketOrEmpty(len) == len >= 0

\* len > 0
GotPacket(len) == len > 0

SelectedDid(e, env, ops, pushed) ==
  [ret |-> 0, e |-> e, env |-> env, ops |-> ops, pushed |-> pushed]

selected(e, env, fd, len, eagain) ==
  IF ~IsOwnFd(e, fd) THEN SelectedDid(e, env, <<>>, <<>>)
  ELSE LET p == Packet_make(HEADROOM, BUFSIZE)
           make == Op("Packet::make", -1, NoLabel, p.length, TRUE)
           recv == Op("recvfrom", e._fd, NoLabel, len, len > 0)
           kill == Op("kill", -1, NoLabel, 0, TRUE)
       IN IF GotPacket(len)
          THEN SelectedDid(e, env,
                           <<make, recv, Op("click_gettimeofday", -1, NoLabel, 0, TRUE),
                             Op("push", -1, NoLabel, 0, TRUE)>>,
                           <<PacketToPush(p, len)>>)
          ELSE IF len <= 0 /\ ~eagain
          THEN SelectedDid(e, env,
                           <<make, recv, kill, Op("click_chatter", -1, NoLabel, 0, TRUE)>>,
                           <<>>)
          ELSE SelectedDid(e, env, <<make, recv, kill>>, <<>>)

(***************************************************************************)
(* The configurations tried.                                               *)
(***************************************************************************)
Head5(proto, src) == <<TokDevice, TokDivertPort, TokRuleNum, proto, src>>

\* the tokens that may follow the five fixed ones
TailTokens == {TokPort, TokReversed, TokPrefix, TokIn}

Tails == UNION {[1..n -> TailTokens] : n \in 0..(MaxTokens - 5)}

Heads == {Head5(proto, TokPrefix) : proto \in {TokTcp, TokUdp, TokIcmp}}

\* every vector of up to MaxTokens tokens: a head cut short, or a head and a tail
AllConfs ==
  {SubSeq(Head5(TokTcp, TokPrefix), 1, n) : n \in 0..4}
    \cup {h \o t : h \in Heads, t \in Tails}

\* divert ports other than TokDivertPort: 1, 256 and 65535
OtherDivertPorts ==
  {<<"1">>, <<"2", "5", "6">>, <<"6", "5", "5", "3", "5">>}

\* the vectors the lifecycle is run with: one per direction and shape of rule,
\* the scenarios of the element's documentation, and some that configure rejects
ScenarioConfs ==
  { Head5(TokIcmp, TokPrefix) \o <<TokPrefix>>,
    Head5(TokTcp, TokPrefix) \o <<TokPrefix, TokIn>>,
    Head5(TokUdp, TokPrefix) \o <<TokPort, TokPrefix, TokOut>>,
    Head5(TokTcp, TokPrefix) \o <<TokRange, TokPrefix, TokPort>>,
    Head5(TokTcp, TokPrefix) \o <<TokRange, TokPrefix, TokReversed, TokIn>>,
    Head5(TokTcp, TokPrefix) \o <<TokRange, TokZeroPrefix, TokEmpty, TokIn>>,
    Head5(TokTcp, TokPrefix) \o <<TokRange, TokPrefix, TokEmpty, TokIn>>,
    Head5(TokIcmp, TokPrefix) \o <<TokZeroPrefix>>,
    Head5(TokIcmp, TokPrefix) \o <<TokPort, TokPrefix>>,
    Head5(TokTcp, TokZeroPrefix) \o <<TokPort, TokPrefix>>,
    Head5(TokUdp, TokPrefix) \o <<TokReversed, TokPrefix>>,
    Head5(TokTcp, TokPrefix) \o <<TokBigPort, TokPrefix>>,
    Head5(TokTcp, TokPrefix) \o <<TokPrefix, TokSideways>>,
    Head5(TokTcp, TokPrefix) \o <<TokPort>>,
    Head5(TokTcp, TokPrefix) }
    \cup {<<TokDevice, port, TokRuleNum, TokIcmp, TokPrefix, TokPrefix>> :
            port \in OtherDivertPorts}

\* what a read of conf[] past its end may yield: a String that parses as a
\* prefix, or one that does not
JunkTokens == {TokPrefix, TokSideways}

(***************************************************************************)
(* The state machine.                                                      *)
(***************************************************************************)
Env == [openFds |-> openFds, nonblocking |-> nonblocking,
        registered |-> registered, fwtable |-> fwtable]

Snapshot == [elem |-> elem, env |-> Env, phase |-> phase]

\* fd is the argument of a selected call, pushed the packets it pushed to
\* output 0
Call(name, ret, ops, conf, oob) ==
  [call |-> name, ret |-> ret, ops |-> ops, conf |-> conf, oob |-> oob,
   fd |-> -1, pushed |-> <<>>, pre |-> Snapshot]

SetEnv(env) ==
  /\ openFds' = env.openFds
  /\ nonblocking' = env.nonblocking
  /\ registered' = env.registered
  /\ fwtable' = env.fwtable

Init ==
  /\ backend \in {"FreeBSD", "linux"}
  /\ byteorder \in {"little", "big"}
  /\ \E junkHeap \in BOOLEAN : elem = NewElement(junkHeap)
  /\ phase = "Unconfigured"
  /\ openFds = StdFds
  /\ nonblocking = {}
  /\ registered = {}
  /\ fwtable = [c \in Chains |-> <<OtherRule>>]
  /\ last = [call |-> "new", ret |-> 0, ops |-> <<>>, conf |-> <<>>, oob |-> FALSE,
             fd |-> -1, pushed |-> <<>>,
             pre |-> [elem |-> elem,
                      env |-> [openFds |-> StdFds, nonblocking |-> {}, registered |-> {},
                               fwtable |-> [c \in Chains |-> <<OtherRule>>]],
                      phase |-> "Unconfigured"]]
  /\ prev = last

\* the host calls configure(conf)
Configure(conf) ==
  /\ phase = "Unconfigured"
  /\ \E junk \in JunkTokens :
       LET r == configure(conf, elem, junk) IN
       /\ elem' = r.e
       /\ phase' = IF r.ret = 0 THEN "Configured" ELSE "Failed"
       /\ last' = Call("configure", r.ret,
                       [i \in 1..Len(conf) |-> Op("printf", -1, NoLabel, 0, TRUE)],
                       conf, r.oob)
  /\ prev' = last
  /\ UNCHANGED <<backend, byteorder, openFds, nonblocking, registered, fwtable>>

ConfigureScenario == \E conf \in ScenarioConfs : Configure(conf)

\* The answers of the host to the requests of one initialize call.  The call
\* returns at the first of socket, bind, system, fwsock, insert2 and insert
\* that fails, so at most one of them is let fail: step names it, "none" for
\* no failure.  fcntl and add_select fail without ending the call.
FailingSteps == {"none", "socket", "bind", "system", "fwsock", "insert2", "insert"}

Outcomes ==
  {[socket |-> step # "socket", bind |-> step # "bind", fcntl |-> fcntlOk,
    system |-> step # "system", fwsock |-> step # "fwsock",
    insert2 |-> step # "insert2", insert |-> step # "insert", select |-> selectOk] :
     step \in FailingSteps, fcntlOk \in BOOLEAN, selectOk \in BOOLEAN}

\* the host calls initialize() on a configured element
Initialize ==
  /\ phase = "Configured"
  /\ \E out \in Outcomes :
       LET r == initialize(elem, Env, backend, byteorder, out) IN
       /\ elem' = r.e
       /\ SetEnv(r.env)
       /\ phase' = IF r.ret = 0 THEN "Live" ELSE "Failed"
       /\ last' = Call("initialize", r.ret, r.ops, <<>>, FALSE)
  /\ prev' = last
  /\ UNCHANGED <<backend, byteorder>>

\* the host calls uninitialize()
Uninitialize ==
  /\ phase # "Destroyed"
  /\ LET r == uninitialize(elem, Env, backend) IN
     /\ elem' = r.e
     /\ SetEnv(r.env)
     /\ last' = Call("uninitialize", r.ret, r.ops, <<>>, FALSE)
  /\ phase' = "Down"
  /\ prev' = last
  /\ UNCHANGED <<backend, byteorder>>

\* DivertSocket::~DivertSocket: the object's last call
Destructor ==
  /\ phase # "Destroyed"
  /\ LET r == uninitialize(elem, Env, backend) IN
     /\ elem' = r.e
     /\ SetEnv(r.env)
     /\ last' = Call("destructor", r.ret, r.ops, <<>>, FALSE)
  /\ phase' = "Destroyed"
  /\ prev' = last
  /\ UNCHANGED <<backend, byteorder>>

\* what recvfrom may return
RecvLens == {-1, 0, 1, 60, BUFSIZE}

\* the host calls selected(fd): for the element's descriptor only while it is
\* registered, for another descriptor at any time the element is live
Selected ==
  /\ phase = "Live"
  /\ \E fd \in FdSet, len \in RecvLens, eagain \in BOOLEAN :
       /\ fd = elem._fd => fd \in registered
       /\ eagain => len = -1
       /\ LET r == selected(elem, Env, fd, len, eagain) IN
          /\ elem' = r.e
          /\ SetEnv(r.env)
          /\ last' = [Call("selected", r.ret, r.ops, <<>>, FALSE)
                         EXCEPT !.fd = fd, !.pushed = r.pushed]
  /\ prev' = last
  /\ UNCHANGED <<backend, byteorder, phase>>

Next == ConfigureScenario \/ Initialize \/ Selected \/ Uninitialize \/ Destructor

Spec == Init /\ [][Next]_vars

\* configure alone, called on a new element with any vector of AllConfs
ConfigureAny == \E conf \in AllConfs : Configure(conf)

\* configure looks neither at the backend nor at the byte order
InitConfigure == Init /\ backend = "linux" /\ byteorder = "little"

SpecConfigure == InitConfigure /\ [][ConfigureAny]_vars

(***************************************************************************)
(* Properties.                                                             *)
(***************************************************************************)
\* a rule the element inserted is in the firewall table
ElementRuleInstalled ==
  \E c \in Chains : \E i \in 1..Len(fwtable[c]) : fwtable[c][i].owner = "element"

\* the descriptors the calls of ops opened
OpenedBy(ops) == {ops[i].fd : i \in {j \in 1..Len(ops) : ops[j].op = "socket" /\ ops[j].ok}}

\* the places of ops where the call did the named thing
Places(ops, names) == {i \in 1..Len(ops) : ops[i].op \in names}

LastIsTearDown == last.call \in {"uninitialize", "destructor"}

\* C1: whenever initialize returns failure, every descriptor it opened during
\* the call (the divert socket, the Linux control socket) is closed by then.
C1_FailedInitializeLeavesNoDescriptor ==
  (last.call = "initialize" /\ last.ret # 0) => OpenedBy(last.ops) \cap openFds = {}

\* C2: on Linux with direction both, when the insertion into chain input fails
\* after the insertion into chain output succeeded, the inserted rule is deleted
\* before initialize returns: a failed initialize leaves no rule of the element.
C2_FailedInitializeLeavesNoRule ==
  (backend = "linux" /\ last.call = "initialize" /\ last.ret # 0)
    => ~ElementRuleInstalled

\* C3: a successful initialize followed at once by uninitialize leaves the
\* firewall table as it was before initialize and leaves open none of the
\* descriptors the element opened.
C3_InitializeUninitializeRestores ==
  (LastIsTearDown /\ prev.call = "initialize" /\ prev.ret = 0)
    => /\ fwtable = prev.pre.env.fwtable
       /\ openFds = prev.pre.env.openFds
       /\ OpenedBy(prev.ops) \cap openFds = {}

\* C3 happens: Linux, both directions, two rules inserted and two deleted
C3_Witness ==
  /\ last.call = "uninitialize" /\ prev.call = "initialize" /\ prev.ret = 0
  /\ backend = "linux"
  /\ Cardinality(Places(prev.ops, {"IP_FW_INSERT"})) = 2
  /\ Cardinality(OpenedBy(prev.ops)) = 2
  /\ ~ElementRuleInstalled

\* C4: between lifecycle calls, a rule installed by the element exists if and
\* only if the divert socket is open and registered for read-readiness.
C4_RuleIffOpenAndRegistered ==
  ElementRuleInstalled <=> (elem._fd \in openFds /\ elem._fd \in registered)

\* C5: uninitialize is idempotent: a second call in a row (the destructor's
\* too) does nothing outside the object and leaves everything as the first did.
C5_SecondUninitializeDoesNothing ==
  (LastIsTearDown /\ prev.call = "uninitialize")
    => /\ last.ops = <<>>
       /\ Env = last.pre.env
       /\ elem = last.pre.elem

\* C5 happens: the destructor runs after an uninitialize that released a live
\* element's rule, descriptor and registration
C5_Witness ==
  /\ last.call = "destructor" /\ prev.call = "uninitialize"
  /\ prev.pre.phase = "Live"
  /\ Places(prev.ops, {"close"}) # {}
  /\ Places(prev.ops, {"remove_select"}) # {}

\* C6: uninitialize of a live element deregisters the descriptor first, then
\* uninstalls the rule(s), then closes the divert socket; the descriptor is
\* never closed while registered.
C6_TearDownOrder ==
  (LastIsTearDown /\ last.pre.phase = "Live")
    => /\ \A i \in Places(last.ops, {"remove_select"}) :
            \A j \in Places(last.ops, {"ipfw delete", "IP_FW_DELETE_NUM", "close"}) : i < j
       /\ \A i \in Places(last.ops, {"ipfw delete", "IP_FW_DELETE_NUM"}) :
            \A j \in {k \in Places(last.ops, {"close"}) :
                        last.ops[k].fd = last.pre.elem._fd} : i < j

\* C7: when the rule install succeeds and registering the descriptor fails,
\* initialize returns failure and has uninstalled the rule.
C7_RegistrationFailureRollsBack ==
  (last.call = "initialize"
     /\ \E i \in Places(last.ops, {"add_select"}) : ~last.ops[i].ok)
    => last.ret # 0 /\ ~ElementRuleInstalled

\* the vector the last configure call was given has a length configure rejects
LastConfHasBadLength == Len(last.conf) < 6 \/ Len(last.conf) > 9

\* C8 as stated: for every token sequence of length below 6 or above 9,
\* configure fails and the element's state is as it was before the call: still
\* unconfigured, no member changed, no effect outside the object.
C8_BadLengthChangesNothing ==
  (last.call = "configure" /\ LastConfHasBadLength)
    => /\ last.ret # 0
       /\ phase # "Configured"
       /\ elem = last.pre.elem
       /\ Env = last.pre.env

\* C8 as amended: for every token sequence of length below 6 or above 9,
\* configure fails and leaves the element unconfigured; it changes no member
\* but _have_sport and _have_dport, which it has set to false before it looks
\* at the length, and does nothing outside the object but print the tokens.
C8_BadLengthResetsOnlyPortFlags ==
  (last.call = "configure" /\ LastConfHasBadLength)
    => /\ last.ret # 0
       /\ phase # "Configured"
       /\ elem = [last.pre.elem EXCEPT !._have_sport = FALSE, !._have_dport = FALSE]
       /\ Env = last.pre.env
       /\ \A i \in 1..Len(last.ops) : last.ops[i].op = "printf"

\* C8 happens: a vector of more than 9 tokens, well-formed up to there, given
\* to an element whose port flags were set
C8_Witness ==
  /\ last.call = "configure"
  /\ Len(last.conf) > 9
  /\ SubSeq(last.conf, 1, 9)
       = Head5(TokTcp, TokPrefix) \o <<TokPort, TokPrefix, TokPort, TokIn>>
  /\ last.pre.elem._have_sport /\ ~elem._have_sport
  /\ last.ret # 0

\* the 0-based positions from 5 on where the vector has a token that parses as
\* a port range
PortPositions(conf) ==
  {i \in 5..(Len(conf) - 1) : parse_ports(conf[i + 1]).ret >= 0}

\* the vector names a protocol other than TCP and UDP
NamesPortlessProtocol(conf) ==
  /\ Len(conf) >= 4
  /\ cp_byte(conf[4]).ok
  /\ cp_byte(conf[4]).val \notin {6, 17}

\* C9: for every protocol other than TCP (6) and UDP (17) and every sequence of
\* 6 to 9 tokens with a token at position 5 or later that parses as a port
\* range, configure fails.
C9_PortsRejectedForOtherProtocols ==
  (last.call = "configure"
     /\ Len(last.conf) \in 6..9
     /\ NamesPortlessProtocol(last.conf)
     /\ PortPositions(last.conf) # {})
    => last.ret # 0

\* C9 happens: ICMP, a destination prefix at position 5 and a port at 6, so
\* that the call gets as far as the destination ports
C9_Witness ==
  /\ last.call = "configure"
  /\ last.conf = Head5(TokIcmp, TokPrefix) \o <<TokPrefix, TokPort>>
  /\ last.ret # 0
  /\ elem._daddr = <<10, 0, 0, 0>>

\* N-M with N > M
IsReversedRange(tok) ==
  LET dash == find_left(tok, "-")
      lo == cp_integer(substring(tok, 0, dash))
      hi == cp_integer(substring_from(tok, dash + 1))
  IN dash > 0 /\ lo.ok /\ hi.ok /\ lo.val > hi.val

\* the 0-based position of the destination ports: after the destination
\* prefix, which follows the source ports if the vector has them
DstPortsPosition(conf) == IF parse_ports(conf[6]).ret >= 0 THEN 7 ELSE 6

\* C10: for every vector of 6 to 9 tokens with a reversed port range N-M, N > M,
\* in the source-ports or the destination-ports position, configure fails,
\* whatever the arity.
C10_ReversedRangeRejected ==
  (last.call = "configure"
     /\ Len(last.conf) \in 6..9
     /\ \/ IsReversedRange(last.conf[6])
        \/ /\ DstPortsPosition(last.conf) < Len(last.conf)
           /\ IsReversedRange(last.conf[DstPortsPosition(last.conf) + 1]))
    => last.ret # 0

\* scenario 1 of the element's documentation: TCP, a source-port range, the
\* destination prefix 0.0.0.0/0, an empty destination-ports token, direction in
Scenario1 == Head5(TokTcp, TokPrefix) \o <<TokRange, TokZeroPrefix, TokEmpty, TokIn>>

\* scenario 1 with a destination prefix whose address is not zero
Scenario1NonZeroDst == Head5(TokTcp, TokPrefix) \o <<TokRange, TokPrefix, TokEmpty, TokIn>>

\* C11 as stated: configure accepts the 9-token TCP configuration of scenario 1
\* (non-zero source prefix, source-port range, destination prefix 0.0.0.0/0,
\* empty destination-ports token, direction in).
C11_Scenario1Accepted ==
  (last.call = "configure" /\ last.conf = Scenario1) => last.ret = 0

\* C11 as amended: configure rejects the configuration of scenario 1, since
\* the address of its destination prefix 0.0.0.0/0 is zero; it accepts the same
\* nine tokens with a destination prefix whose address is not zero.
C11_Scenario1RejectedForZeroDst ==
  /\ (last.call = "configure" /\ last.conf = Scenario1) => last.ret # 0
  /\ (last.call = "configure" /\ last.conf = Scenario1NonZeroDst) => last.ret = 0

\* C11 happens: scenario 1 is rejected after its source ports 80-80 and its
\* destination prefix were parsed
C11_Witness ==
  /\ last.call = "configure" /\ last.conf = Scenario1 /\ last.ret # 0
  /\ elem._have_sport /\ elem._sportl = 80 /\ elem._sporth = 80
  /\ elem._saddr = <<10, 0, 0, 0>> /\ elem._daddr = <<0, 0, 0, 0>>

\* C16: for a TCP or UDP configuration of exactly 6 tokens whose token at
\* position 5 parses as a port range, configure fails, and it reads no token
\* past the end of the vector.
C16_SixTokensWithPortsRejected ==
  (last.call = "configure"
     /\ Len(last.conf) = 6
     /\ cp_byte(last.conf[4]).ok /\ cp_byte(last.conf[4]).val \in {6, 17}
     /\ parse_ports(last.conf[6]).ret >= 0)
    => last.ret # 0 /\ ~last.oob

\* the direction the operator wrote: the last token when it is "in" or "out",
\* none otherwise
DirectionWritten(conf) ==
  IF conf # <<>> /\ conf[Len(conf)] \in {TokIn, TokOut} THEN conf[Len(conf)]
  ELSE TokEmpty

\* the chain labels of the rules a call inserted, in the order it inserted them
InsertedLabels(ops) ==
  LET done == SelectSeq(ops, LAMBDA o : o.op = "IP_FW_INSERT" /\ o.ok)
  IN [i \in 1..Len(done) |-> done[i].chain]

\* C12: for every accepted configuration, the direction token the operator
\* wrote determines the chains of the Linux backend at initialize: "in" is one
\* rule in chain input, "out" one rule in chain output, no direction one rule
\* in each chain; a direction that is written is never ignored.
C12_DirectionDeterminesChains ==
  (backend = "linux" /\ last.call = "initialize" /\ last.ret = 0
     /\ prev.call = "configure")
    => InsertedLabels(last.ops) =
         (IF DirectionWritten(prev.conf) = TokIn THEN <<ChainInput>>
          ELSE IF DirectionWritten(prev.conf) = TokOut THEN <<ChainOutput>>
          ELSE <<ChainOutput, ChainInput>>)

\* what recvfrom returned in the call, when the call received once
Received(ops) == ops[CHOOSE i \in Places(ops, {"recvfrom"}) : TRUE].num

\* C13: selected(fd) on the element's own descriptor receives exactly once and
\* pushes at most once, a packet being pushed exactly when the receive
\* returned a positive length; on any other descriptor it receives nothing,
\* pushes nothing and changes no state.
C13_SelectedOneReceiveAtMostOnePush ==
  last.call = "selected" =>
    IF last.fd = last.pre.elem._fd
    THEN /\ Cardinality(Places(last.ops, {"recvfrom"})) = 1
         /\ Len(last.pushed) <= 1
         /\ Cardinality(Places(last.ops, {"push"})) = Len(last.pushed)
         /\ Len(last.pushed) = 1 <=> Received(last.ops) > 0
    ELSE /\ last.ops = <<>> /\ last.pushed = <<>>
         /\ Snapshot = last.pre

\* selected was called for a foreign descriptor right after a call for the
\* element's own descriptor that pushed a packet
C13_Witness ==
  /\ last.call = "selected" /\ last.fd # last.pre.elem._fd
  /\ prev.call = "selected" /\ prev.fd = prev.pre.elem._fd /\ Len(prev.pushed) = 1

\* C14: every packet pushed to output 0 is as long as the receive that
\* produced it returned and has a headroom of 2, for every positive length up
\* to the capacity of the buffer.
C14_PushedPacketLengthAndHeadroom ==
  last.call = "selected" =>
    \A i \in 1..Len(last.pushed) :
      /\ last.pushed[i].length = Received(last.ops)
      /\ last.pushed[i].headroom = 2

\* a packet of one byte was pushed after a packet that filled the buffer
C14_Witness ==
  /\ last.call = "selected" /\ last.pushed = <<[headroom |-> 2, length |-> 1]>>
  /\ prev.call = "selected" /\ prev.pushed = <<[headroom |-> 2, length |-> BUFSIZE]>>

\* C15: a receive that returns zero or an error leaves the element Live: the
\* descriptor, its registration and the rule(s) are as before, no packet is
\* pushed, and a later selected can still receive and push a packet.
C15_FailedReceiveLeavesLive ==
  (last.call = "selected" /\ last.fd = last.pre.elem._fd /\ Received(last.ops) <= 0)
    => /\ last.pushed = <<>>
       /\ Snapshot = last.pre
       /\ phase = "Live" /\ elem._fd \in registered /\ ElementRuleInstalled
       /\ \E len \in RecvLens :
            selected(elem, Env, elem._fd, len, FALSE).pushed # <<>>

\* a packet was pushed by the call right after one whose receive failed with
\* an error other than EAGAIN, and by the call right after an empty read
C15_Witness ==
  /\ last.call = "selected" /\ Len(last.pushed) = 1
  /\ prev.call = "selected" /\ prev.fd = last.fd /\ prev.pushed = <<>>
  /\ Received(prev.ops) <= 0
  /\ Places(prev.ops, {"click_chatter"}) # {}

\* C17: the element is never Live, its rule installed and its descriptor
\* registered, with a divert socket that is not non-blocking: when setting
\* the mode fails, initialize closes the descriptor and fails.
C17_NeverLiveWithBlockingSocket ==
  /\ (phase = "Live" /\ ElementRuleInstalled /\ elem._fd \in registered)
       => elem._fd \in nonblocking
  /\ (last.call = "initialize"
        /\ \E i \in Places(last.ops, {"fcntl"}) : ~last.ops[i].ok)
       => last.ret # 0 /\ OpenedBy(last.ops) \cap openFds = {}

\* the rules of a table some other party put there, chain by chain
RulesOfOthers(table) ==
  [c \in Chains |-> SelectSeq(table[c], LAMBDA r : r.owner # "element")]

\* how many rules of the element a table holds
ElementRules(table, c) ==
  Cardinality({i \in 1..Len(table[c]) : table[c][i].owner = "element"})

\* C18: the element asks for the deletion of a rule only when it installed
\* that rule and has not deleted it yet: a teardown issues no more deletes
\* than the element has rules in the table, each of them succeeds, and the
\* rules of other parties stay; after an initialize that failed before any
\* rule was installed, uninitialize deletes nothing.
C18_DeletesOnlyOwnRules ==
  LastIsTearDown =>
    LET dels == Places(last.ops, {"IP_FW_DELETE_NUM", "ipfw delete"}) IN
    /\ Cardinality(dels) <= ElementRules(last.pre.env.fwtable, "input")
                              + ElementRules(last.pre.env.fwtable, "output")
                              + ElementRules(last.pre.env.fwtable, "ipfw")
    /\ \A i \in dels : last.ops[i].ok
    /\ RulesOfOthers(fwtable) = RulesOfOthers(last.pre.env.fwtable)

\* C19: every descriptor the element opens is closed exactly once: no call
\* closes a descriptor that is not open or that the element did not open,
\* remove_select is asked only for a registered descriptor, and nothing the
\* element opened is open once it is destroyed.
C19_EveryDescriptorClosedOnce ==
  /\ \A i \in Places(last.ops, {"close"}) :
       last.ops[i].ok /\ last.ops[i].fd \notin StdFds
  /\ \A i \in Places(last.ops, {"remove_select"}) : last.ops[i].ok
  /\ phase = "Destroyed" => openFds = StdFds

\* the redirect ports of the element's rules in the Linux chains
RedirectPorts ==
  UNION {{fwtable[c][i].rule.ipfw.fw_redirpt :
            i \in {j \in 1..Len(fwtable[c]) : fwtable[c][j].owner = "element"}} :
         c \in {"input", "output"}}

=============================================================================
